---- MODULE Spec2Model ----
(***************************************************************************)
(* A model of rustpostal, the Rust binding of libpostal.                   *)
(*                                                                         *)
(* The binding is a thin shim, so the model records, for every operation   *)
(* of the crate, the sequence of native (FFI) calls it issues and the      *)
(* value it returns, and keeps the native library's process-wide state     *)
(* (which subsystems are initialised).  The native library is the          *)
(* environment: what a native entry point returns is an input of the       *)
(* action that calls it.                                                   *)
(*                                                                         *)
(* Strings are sequences of bytes.  0 is the NUL byte.                     *)
(***************************************************************************)
EXTENDS Integers, Sequences, FiniteSets, TLC

\* ------------------------------------------------------------------ bounds
MaxTokens == 2        \* LibModules values alive at the same time
MaxNative == 2        \* cap on the setup calls not yet matched by a teardown call,
                      \* and on the teardown calls not matched by a setup call
MaxStrLen == 2        \* length of an input string (address, language code)
MaxComponents == 2    \* num_components of a native parse response
MaxVariants == 2      \* n of a native expansion array
MaxLangs == 1         \* language codes of a NormalizeOptions
NumThreads == 2       \* threads of the concurrent specification
MaxAdds == 2          \* add_* calls made on a NormalizeOptions

VARIABLES
    tokens,      \* the LibModules values of the program
    native,      \* the native library's global state: what is initialised
    balance,     \* instrumentation, held only by the counting specification: per
                 \* part of the native state, the setup calls that returned true
                 \* minus the teardown calls made
    exited,      \* the process has ended through process::exit
    last,        \* the most recent operation: name, receiver, input, result
    trace,       \* the native calls the most recent operation issued
    mem,         \* the C-string allocator events of the most recent operation
    req,         \* the marshaling call the caller has made and that is to run
    thr,         \* concurrent specification: the threads
    inflight,    \* concurrent specification: native call each thread is inside
    defaults     \* what the native library's two default-options getters return

thrVars == <<req, thr, inflight>>
vars == <<tokens, native, balance, exited, last, trace, mem, req, thr, inflight, defaults>>

\* Option<T> and nullable pointers: empty, or holding one value.
NONE == <<>>
NULL == <<>>
Some(x) == <<x>>
Get(o) == o[1]
Unit == "()"

\* ----------------------------------------------------------------- strings
NUL == 0

\* All sequences over S of length lo..hi.
SeqsOf(S, lo, hi) == UNION {[1..n -> S] : n \in lo..hi}

\* A Rust &str is valid UTF-8; U+0000 is a valid character of it.
StrBytes == {0, 97}
Strs == SeqsOf(StrBytes, 0, MaxStrLen)

HasNul(s) == \E i \in 1..Len(s) : s[i] = NUL

\* Position of the first NUL of a byte buffer (Len+1 when there is none).
FirstNul(b) ==
    IF HasNul(b) THEN CHOOSE i \in 1..Len(b) : b[i] = NUL /\ \A j \in 1..(i-1) : b[j] # NUL
    ELSE Len(b) + 1

\* CString::new: rejects any interior 0 byte, else owns the bytes plus a
\* terminating NUL.
CString_new(s) ==
    IF HasNul(s) THEN [ok |-> FALSE, val |-> "NulError"]
    ELSE [ok |-> TRUE, val |-> Append(s, NUL)]

\* CStr::from_ptr: the bytes up to, not including, the first NUL.
CStr_from_ptr(b) == SubSeq(b, 1, FirstNul(b) - 1)

\* CStr::to_str: UTF-8 validation as core::str::from_utf8 does it (sequences
\* of one to four bytes; overlong forms, surrogates and code points above
\* U+10FFFF are invalid, as is a stray continuation byte).
Utf8Second(lead) ==
    CASE lead = 224 -> 160..191
      [] lead = 237 -> 128..159
      [] lead = 240 -> 144..191
      [] lead = 244 -> 128..143
      [] OTHER -> 128..191

Utf8Width(lead) ==
    IF lead < 128 THEN 1
    ELSE IF lead >= 194 /\ lead <= 223 THEN 2
    ELSE IF lead >= 224 /\ lead <= 239 THEN 3
    ELSE IF lead >= 240 /\ lead <= 244 THEN 4
    ELSE 0

RECURSIVE Utf8Valid(_)
Utf8Valid(b) ==
    IF b = <<>> THEN TRUE
    ELSE IF Utf8Width(b[1]) = 0 \/ Len(b) < Utf8Width(b[1]) THEN FALSE
    ELSE /\ Utf8Width(b[1]) >= 2 => b[2] \in Utf8Second(b[1])
         /\ \A i \in 3..Utf8Width(b[1]) : b[i] \in 128..191
         /\ Utf8Valid(SubSeq(b, Utf8Width(b[1]) + 1, Len(b)))

to_str(b) == IF Utf8Valid(b) THEN [ok |-> TRUE, val |-> b] ELSE [ok |-> FALSE, val |-> "Utf8Error"]

\* ------------------------------------------------------- native entry points
SetupFns == {"libpostal_setup", "libpostal_setup_parser", "libpostal_setup_language_classifier"}
TeardownFns == {"libpostal_teardown", "libpostal_teardown_parser", "libpostal_teardown_language_classifier"}
MarshalFns == {"libpostal_parse_address", "libpostal_expand_address"}
DestroyFns == {"libpostal_address_parser_response_destroy", "libpostal_expansion_array_destroy"}
GetterFns == {"libpostal_get_address_parser_default_options", "libpostal_get_default_options"}

\* The part of the global state an entry point initialises or releases.
PartOf(f) ==
    CASE f \in {"libpostal_setup", "libpostal_teardown"} -> "base"
      [] f \in {"libpostal_setup_parser", "libpostal_teardown_parser"} -> "parser"
      [] OTHER -> "classifier"
Parts == {"base", "parser", "classifier"}

\* One native call: entry point, argument, returned value.
Call(f, a, r) == [fn |-> f, arg |-> a, ret |-> r]

\* The result of running (part of) an operation: the native calls issued, the
\* allocator events, how it ended (kind: Ok, Err, panic, exit) and the value.
Done(calls, m, kind, val) == [calls |-> calls, mem |-> m, kind |-> kind, val |-> val]

\* A method call that ran to r and left the object it was called on as self.
Method(r, self) ==
    [calls |-> r.calls, mem |-> r.mem, kind |-> r.kind, val |-> r.val, self |-> self]

\* One allocator event of an operation: what is done to which buffer, and how
\* many native calls of the operation had returned when it was done.
Event(ev, ptr, after) == [ev |-> ev, ptr |-> ptr, after |-> after]

\* The events m of a step that began when n native calls had returned.
Later(m, n) == [i \in 1..Len(m) |-> [m[i] EXCEPT !.after = @ + n]]

\* What the native library returns from its three setup entry points.
SetupOutcomes == [base : BOOLEAN, parser : BOOLEAN, classifier : BOOLEAN]

\* ---------------------------------------------------------------- lib.rs
Modules == {"Address", "Expand", "All"}

\* setup_parser: process::exit(1) when the native call reports failure.
setup_parser(ok) ==
    Done(<<Call("libpostal_setup_parser", Unit, ok.parser)>>, <<>>,
         IF ok.parser THEN "Ok" ELSE "exit", Unit)

setup_classifier(ok) ==
    Done(<<Call("libpostal_setup_language_classifier", Unit, ok.classifier)>>, <<>>,
         IF ok.classifier THEN "Ok" ELSE "exit", Unit)

teardown_parser == <<Call("libpostal_teardown_parser", Unit, TRUE)>>

teardown_classifier == <<Call("libpostal_teardown_language_classifier", Unit, TRUE)>>

\* a; b  where b runs only when a ended normally.
Then(a, b) ==
    IF a.kind # "Ok" THEN a
    ELSE Done(a.calls \o b.calls, a.mem \o Later(b.mem, Len(a.calls)), b.kind, b.val)

\* The match on the module of setup (both the method and the free function).
SetupSubsystems(self, ok) ==
    CASE self = "Expand" -> setup_classifier(ok)
      [] self = "Address" -> setup_parser(ok)
      [] self = "All" -> Then(setup_parser(ok), setup_classifier(ok))

\* LibModules::setup as it would be with the result of the base setup ignored.
LibModules_setup_base_unchecked(self, ok) ==
    Then(Done(<<Call("libpostal_setup", Unit, ok.base)>>, <<>>, "Ok", Unit),
         SetupSubsystems(self, ok))

\* LibModules::setup(&self).
LibModules_setup(self, ok) ==
    IF ~ok.base
    THEN Done(<<Call("libpostal_setup", Unit, FALSE)>>, <<>>, "Err", "SetupError")
    ELSE Then(Done(<<Call("libpostal_setup", Unit, TRUE)>>, <<>>, "Ok", Unit),
              SetupSubsystems(self, ok))

\* The match on the module of Drop and of the free function teardown.
TeardownSubsystems(self) ==
    CASE self = "Expand" -> teardown_classifier
      [] self = "Address" -> teardown_parser
      [] self = "All" -> teardown_parser \o teardown_classifier

\* impl Drop for LibModules.
LibModules_drop(self) ==
    Done(<<Call("libpostal_teardown", Unit, TRUE)>> \o TeardownSubsystems(self),
         <<>>, "Ok", Unit)

\* The deprecated free function setup(component): component is taken by value
\* and dropped when the function returns; process::exit runs no destructor.
setup(component, ok) ==
    IF ~ok.base
    THEN Done(<<Call("libpostal_setup", Unit, FALSE)>>, <<>>, "exit", Unit)
    ELSE Then(Then(Done(<<Call("libpostal_setup", Unit, TRUE)>>, <<>>, "Ok", Unit),
                   SetupSubsystems(component, ok)),
              LibModules_drop(component))

\* The deprecated free function teardown(component): component is taken by
\* value and dropped when the function returns.
teardown(component) ==
    Then(Done(<<Call("libpostal_teardown", Unit, TRUE)>> \o TeardownSubsystems(component),
              <<>>, "Ok", Unit),
         LibModules_drop(component))

\* ------------------------------------------------- the native global state
\* Effect of one native call on the global state and on the balance of
\* successful setup calls against teardown calls.
Counted(bal, part, d) == IF bal = NONE THEN bal ELSE <<[Get(bal) EXCEPT ![part] = @ + d]>>

NativeStep(g, c) ==
    IF c.fn \in SetupFns /\ c.ret = TRUE
    THEN [init |-> [g.init EXCEPT ![PartOf(c.fn)] = TRUE],
          bal |-> Counted(g.bal, PartOf(c.fn), 1)]
    ELSE IF c.fn \in TeardownFns
    THEN [init |-> [g.init EXCEPT ![PartOf(c.fn)] = FALSE],
          bal |-> Counted(g.bal, PartOf(c.fn), 0 - 1)]
    ELSE g

RECURSIVE NativeRun(_, _)
NativeRun(g, calls) ==
    IF calls = <<>> THEN g ELSE NativeRun(NativeStep(g, Head(calls)), Tail(calls))

Global == [init |-> native, bal |-> balance]

WithinCap(g) ==
    g.bal # NONE =>
        \A p \in Parts : Get(g.bal)[p] <= MaxNative /\ Get(g.bal)[p] >= 0 - MaxNative

\* The calls of `calls` to the entry points in F.
CallsTo(calls, F) == SelectSeq(calls, LAMBDA c : c.fn \in F)


\* ------------------------------------------------------------- address.rs
\* What the native library hands back: C strings (NUL-terminated buffers), one
\* of them not valid UTF-8.
NativeStrs == {<<97>>, <<98>>, <<255>>}
NativeCStrs == {Append(s, NUL) : s \in NativeStrs}
NativeLabels == {<<98, NUL>>, <<255, NUL>>}

\* libpostal_parse_address returns NULL or a response of k components.
ParseResponses ==
    {NULL} \cup UNION {{Some(r) : r \in [num_components : {k},
                                         components : [1..k -> NativeCStrs],
                                         labels : [1..k -> NativeLabels]]} :
                       k \in 0..MaxComponents}

\* libpostal_get_address_parser_default_options(): what the native library
\* returns.
ParserDefaults == defaults.parser

\* The hints a caller passes: Option<&str>.
Hints == {NONE, Some(<<101, 110>>), Some(<<101, 0>>)}

\* AddressParserOptions::new: when the country is rejected, options goes out
\* of scope with the language buffer already in it, which is released.
AddressParserOptions_new(language, country) ==
    IF language # NONE /\ ~CString_new(Get(language)).ok
    THEN Done(<<>>, <<>>, "Err", "NulError")
    ELSE IF country # NONE /\ ~CString_new(Get(country)).ok
    THEN Done(<<>>,
              IF language # NONE
              THEN <<Event("drop", CString_new(Get(language)).val, 0)>> ELSE <<>>,
              "Err", "NulError")
    ELSE Done(<<>>, <<>>, "Ok",
              [language |-> IF language = NONE THEN NONE
                            ELSE Some(CString_new(Get(language)).val),
               country |-> IF country = NONE THEN NONE
                           ELSE Some(CString_new(Get(country)).val)])

\* The AddressParserOptions values a caller can hold.
ParserOptions ==
    {AddressParserOptions_new(l, c).val :
        l \in {h \in Hints : h = NONE \/ ~HasNul(Get(h))},
        c \in {h \in Hints : h = NONE \/ ~HasNul(Get(h))}}

update_ffi_language(self, options) ==
    IF self.language # NONE THEN [options EXCEPT !.language = self.language] ELSE options

update_ffi_country(self, options) ==
    IF self.country # NONE THEN [options EXCEPT !.country = self.country] ELSE options

\* The copy loop of parse over components i..num_components: the first string
\* that is not UTF-8 makes unwrap panic.
RECURSIVE CopyComponents(_, _, _)
CopyComponents(parsed, i, acc) ==
    IF i > parsed.num_components THEN [ok |-> TRUE, val |-> acc]
    ELSE LET component == to_str(CStr_from_ptr(parsed.components[i]))
             label == to_str(CStr_from_ptr(parsed.labels[i]))
         IN  IF ~component.ok \/ ~label.ok THEN [ok |-> FALSE, val |-> acc]
             ELSE CopyComponents(parsed, i + 1,
                                 [tokens |-> Append(acc.tokens, component.val),
                                  labels |-> Append(acc.labels, label.val)])

\* AddressParserResponse::new().
EmptyResponse == [tokens |-> <<>>, labels |-> <<>>]

\* Iterator::zip of two vectors: pairs up to the shorter length.
Zip(a, b) ==
    [i \in 1..(IF Len(a) <= Len(b) THEN Len(a) ELSE Len(b)) |-> <<a[i], b[i]>>]

\* into_iter as it would be with the token put first in each pair.
AddressParserResponse_into_iter_token_first(self) == Zip(self.tokens, self.labels)

\* impl IntoIterator for AddressParserResponse: (label, token) pairs, by value.
AddressParserResponse_into_iter(self) == Zip(self.labels, self.tokens)

\* impl IntoIterator for &AddressParserResponse: (label, token) pairs, by
\* reference.
AddressParserResponse_iter(self) == Zip(self.labels, self.tokens)

\* AddressParserOptions::parse as it would be with a null native response
\* reported as an error.
AddressParserOptions_parse_null_is_error(self, address, raw) ==
    Method(
    LET c_address == CString_new(address)
        ffi_options == update_ffi_country(self, update_ffi_language(self, ParserDefaults))
        calls == <<Call("libpostal_get_address_parser_default_options", Unit, ParserDefaults),
                   Call("libpostal_parse_address",
                        [address |-> c_address.val, options |-> ffi_options], raw)>>
        copied == IF raw = NULL THEN [ok |-> TRUE, val |-> EmptyResponse]
                  ELSE CopyComponents(Get(raw), 1, EmptyResponse)
    IN  IF ~c_address.ok THEN Done(<<>>, <<>>, "Err", "NulError")
        ELSE IF raw = NULL
        THEN Done(calls, <<Event("into_raw", c_address.val, 0),
                           Event("from_raw", c_address.val, 2)>>,
                  "Err", "NullResponse")
        ELSE IF ~copied.ok
        THEN Done(calls, <<Event("into_raw", c_address.val, 0)>>,
                  "panic", "Utf8Error")
        ELSE Done(calls \o <<Call("libpostal_address_parser_response_destroy", raw, Unit)>>,
                  <<Event("into_raw", c_address.val, 0),
                    Event("from_raw", c_address.val, 3)>>,
                  "Ok", copied.val),
    self)

\* AddressParserOptions::parse as it would be with the native default options
\* fetched before the address is validated.
AddressParserOptions_parse_getter_first(self, address, raw) ==
    Method(
    LET c_address == CString_new(address)
        getter == Call("libpostal_get_address_parser_default_options", Unit, ParserDefaults)
        ffi_options == update_ffi_country(self, update_ffi_language(self, ParserDefaults))
        copied == IF raw = NULL THEN [ok |-> TRUE, val |-> EmptyResponse]
                  ELSE CopyComponents(Get(raw), 1, EmptyResponse)
    IN  IF ~c_address.ok THEN Done(<<getter>>, <<>>, "Err", "NulError")
        ELSE IF ~copied.ok
        THEN Done(<<getter, Call("libpostal_parse_address",
                                 [address |-> c_address.val, options |-> ffi_options], raw)>>,
                  <<Event("into_raw", c_address.val, 0)>>, "panic", "Utf8Error")
        ELSE Done(<<getter, Call("libpostal_parse_address",
                                 [address |-> c_address.val, options |-> ffi_options], raw),
                    Call("libpostal_address_parser_response_destroy", raw, Unit)>>,
                  <<Event("into_raw", c_address.val, 0),
                    Event("from_raw", c_address.val, 3)>>,
                  "Ok", copied.val),
    self)

\* AddressParserOptions::parse(&self, address); raw is what the native parse
\* call returns.  The method reads self and assigns to none of its fields.
AddressParserOptions_parse(self, address, raw) ==
    Method(
    LET c_address == CString_new(address) IN
    IF ~c_address.ok THEN Done(<<>>, <<>>, "Err", "NulError")
    ELSE
    LET ptr == c_address.val
        ffi_options == update_ffi_country(self, update_ffi_language(self, ParserDefaults))
        calls == <<Call("libpostal_get_address_parser_default_options", Unit, ParserDefaults),
                   Call("libpostal_parse_address",
                        [address |-> ptr, options |-> ffi_options], raw)>>
        copied == IF raw = NULL THEN [ok |-> TRUE, val |-> EmptyResponse]
                  ELSE CopyComponents(Get(raw), 1, EmptyResponse)
    IN  IF ~copied.ok
        THEN Done(calls, <<Event("into_raw", ptr, 0)>>, "panic", "Utf8Error")
        ELSE Done(calls \o <<Call("libpostal_address_parser_response_destroy", raw, Unit)>>,
                  <<Event("into_raw", ptr, 0), Event("from_raw", ptr, 3)>>,
                  "Ok", copied.val),
    self)

\* An AddressParserOptions value goes out of scope when n native calls have
\* returned: its hint buffers are released.
DropHints(self, n) ==
    (IF self.language # NONE THEN <<Event("drop", Get(self.language), n)>> ELSE <<>>)
    \o (IF self.country # NONE THEN <<Event("drop", Get(self.country), n)>> ELSE <<>>)

\* parse_address(address, language, country): options is dropped when the
\* function returns or unwinds.
parse_address(address, language, country, raw) ==
    LET options == AddressParserOptions_new(language, country)
        Dropped(r) ==
            Done(r.calls, r.mem \o DropHints(options.val, Len(r.calls)), r.kind, r.val)
    IN  IF options.kind # "Ok" THEN options
        ELSE Dropped(AddressParserOptions_parse(options.val, address, raw))

\* ParsedAddress (the HashMap-backed one of address.rs): getter -> the label it
\* looks up.  In this part labels and tokens are written as text.
FieldLabel ==
    [house |-> "house", house_number |-> "house_number", po_box |-> "po_box",
     building |-> "building", entrance |-> "entrance", staircase |-> "staircase",
     level |-> "level", unit |-> "unit", road |-> "road",
     metro_station |-> "metro_station", suburb |-> "suburb",
     city_district |-> "city_district", city |-> "city",
     state_district |-> "state_district", island |-> "island", state |-> "state",
     postcode |-> "postcode", country_region |-> "country_region",
     country |-> "country", world_region |-> "world_region", website |-> "website",
     telephone |-> "telephone"]
Fields == DOMAIN FieldLabel

\* HashMap::insert as it would be if a key already present kept its value.
HashMap_insert_if_absent(m, k, v) ==
    [x \in DOMAIN m \cup {k} |-> IF x \in DOMAIN m THEN m[x] ELSE v]

\* HashMap::insert and HashMap::get(..).cloned().
HashMap_insert(m, k, v) == [x \in DOMAIN m \cup {k} |-> IF x = k THEN v ELSE m[x]]
HashMap_get(m, k) == IF k \in DOMAIN m THEN Some(m[k]) ELSE NONE

\* ParsedAddress::default().
ParsedAddress_default == [label_to_token |-> [x \in {} |-> ""]]

\* The loop of From<AddressParserResponse>: the pairs from the i-th on are
\* inserted in order.
RECURSIVE InsertPairs(_, _, _)
InsertPairs(pairs, i, parsed_address) ==
    IF i > Len(pairs) THEN parsed_address
    ELSE InsertPairs(pairs, i + 1,
             [parsed_address EXCEPT !.label_to_token =
                 HashMap_insert(@, pairs[i][1], pairs[i][2])])

\* impl From<AddressParserResponse> for ParsedAddress.
ParsedAddress_from(response) ==
    InsertPairs(AddressParserResponse_into_iter(response), 1, ParsedAddress_default)

\* The getter of a field: house(), house_number(), ..., telephone().
ParsedAddress_get(self, field) == HashMap_get(self.label_to_token, FieldLabel[field])

\* ParsedAddress of parsed_address.rs (a struct of Option<String> fields):
\* the match of From, label -> the field assigned; every other label is
\* skipped.
MatchField ==
    [house |-> "house", house_number |-> "house_number", po_box |-> "po_box",
     building |-> "building", entrance |-> "entrance", staircase |-> "staircase",
     level |-> "level", unit |-> "unit", road |-> "road",
     metro_station |-> "metro_station", suburb |-> "suburb",
     city_district |-> "city_district", city |-> "city",
     state_district |-> "state_district", island |-> "island", state |-> "state",
     postcode |-> "postal_code", country_region |-> "country_region",
     country |-> "country", world_region |-> "world_region", website |-> "website",
     phone |-> "telephone"]
StructFields == {MatchField[l] : l \in DOMAIN MatchField}

\* #[derive(Default)] of the struct.
StructParsedAddress_default == [f \in StructFields |-> NONE]

\* The loop of From: the pairs from the i-th on are matched in order.
RECURSIVE AssignPairs(_, _, _)
AssignPairs(pairs, i, parsed_address) ==
    IF i > Len(pairs) THEN parsed_address
    ELSE AssignPairs(pairs, i + 1,
             IF pairs[i][1] \in DOMAIN MatchField
             THEN [parsed_address EXCEPT ![MatchField[pairs[i][1]]] = Some(pairs[i][2])]
             ELSE parsed_address)

\* impl From<AddressParserResponse> for ParsedAddress (parsed_address.rs).
StructParsedAddress_from(response) ==
    AssignPairs(AddressParserResponse_iter(response), 1, StructParsedAddress_default)

\* The responses a ParsedAddress is made from: up to MaxComponents labelled
\* tokens, with labels that repeat and a label no getter looks up.
FoldLabels == {"road", "postcode", "telephone", "phone"}
FoldTokens == {"a", "b"}
FoldResponses ==
    UNION {[tokens : [1..k -> FoldTokens], labels : [1..k -> FoldLabels]] :
           k \in 0..MaxComponents}


\* -------------------------------------------------------------- expand.rs
\* StringOptions: flag name -> bit position.
StringOptionBit ==
    [TRANSLITERATE |-> 0, STRIP_ACCENTS |-> 1, DECOMPOSE |-> 2, LOWERCASE |-> 3,
     TRIM_STRING |-> 4, DROP_PARENTHETICALS |-> 5, REPLACE_NUMERIC_HYPHENS |-> 6,
     DELETE_NUMERIC_HYPHENS |-> 7, SPLIT_ALPHA_FROM_NUMERIC |-> 8,
     REPLACE_WORD_HYPHENS |-> 9, DELETE_WORD_HYPHENS |-> 10, DELETE_FINAL_PERIODS |-> 11,
     DELETE_ACRONYM_PERIODS |-> 12, DROP_ENGLISH_POSSESSIVES |-> 13,
     DELETE_APOSTROPHES |-> 14, EXPAND_NUMEX |-> 15, ROMAN_NUMERALS |-> 16,
     LATIN_ASCII |-> 17]
StringFlags == DOMAIN StringOptionBit

\* AddressComponentBit as it would be with TOPONYM = 1 << 12.
AddressComponentBit_toponym_12 ==
    [ANY |-> 0, NAME |-> 1, HOUSE_NUMBER |-> 2, STREET |-> 3, UNIT |-> 4, LEVEL |-> 5,
     STAIRCASE |-> 6, ENTRANCE |-> 7, CATEGORY |-> 8, NEAR |-> 9, TOPONYM |-> 12,
     POSTAL_CODE |-> 14, PO_BOX |-> 15]

\* AddressComponents: flag name -> bit position (NONE is the empty set).
AddressComponentBit ==
    [ANY |-> 0, NAME |-> 1, HOUSE_NUMBER |-> 2, STREET |-> 3, UNIT |-> 4, LEVEL |-> 5,
     STAIRCASE |-> 6, ENTRANCE |-> 7, CATEGORY |-> 8, NEAR |-> 9, TOPONYM |-> 13,
     POSTAL_CODE |-> 14, PO_BOX |-> 15]
ComponentFlags == DOMAIN AddressComponentBit

\* The integer of a set of bit positions.
RECURSIVE BitsOf(_)
BitsOf(P) == IF P = {} THEN 0 ELSE LET b == CHOOSE x \in P : TRUE IN 2^b + BitsOf(P \ {b})

\* AddressComponents::bits of a set of flags.
ComponentBits(ac) == BitsOf({AddressComponentBit[f] : f \in ac})

\* update_string_options: the boolean field of the native options each flag
\* is copied to.
StringOptionField ==
    [LATIN_ASCII |-> "latin_ascii", TRANSLITERATE |-> "transliterate",
     STRIP_ACCENTS |-> "strip_accents", DECOMPOSE |-> "decompose",
     LOWERCASE |-> "lowercase", TRIM_STRING |-> "trim_string",
     DROP_PARENTHETICALS |-> "drop_parentheticals",
     REPLACE_NUMERIC_HYPHENS |-> "replace_numeric_hyphens",
     DELETE_NUMERIC_HYPHENS |-> "delete_numeric_hyphens",
     SPLIT_ALPHA_FROM_NUMERIC |-> "split_alpha_from_numeric",
     REPLACE_WORD_HYPHENS |-> "replace_word_hyphens",
     DELETE_WORD_HYPHENS |-> "delete_word_hyphens",
     DELETE_FINAL_PERIODS |-> "delete_final_periods",
     DELETE_ACRONYM_PERIODS |-> "delete_acronym_periods",
     DROP_ENGLISH_POSSESSIVES |-> "drop_english_possessives",
     DELETE_APOSTROPHES |-> "delete_apostrophes", EXPAND_NUMEX |-> "expand_numex",
     ROMAN_NUMERALS |-> "roman_numerals"]

\* The defaults of libpostal: no parse hint; the normalize options below.  The
\* eighteen booleans are kept as the set of the fields that are true.
LibpostalParserDefaults == [language |-> NULL, country |-> NULL]
LibpostalNormalizeDefaults ==
    [languages |-> NULL, num_languages |-> 0,
     address_components |->
        ComponentBits({"NAME", "HOUSE_NUMBER", "STREET", "PO_BOX", "UNIT", "LEVEL",
                       "ENTRANCE", "STAIRCASE", "POSTAL_CODE"}),
     toggles |-> {"latin_ascii", "transliterate", "strip_accents", "decompose",
                  "lowercase", "trim_string", "drop_parentheticals",
                  "split_alpha_from_numeric", "delete_final_periods",
                  "delete_acronym_periods", "drop_english_possessives",
                  "delete_apostrophes", "expand_numex", "roman_numerals"}]

LibpostalDefaults ==
    [parser |-> LibpostalParserDefaults, normalize |-> LibpostalNormalizeDefaults]

\* The defaults of another build of the native library.
OtherDefaults ==
    [parser |-> [language |-> Some(<<100, 101, NUL>>), country |-> NULL],
     normalize |-> [languages |-> NULL, num_languages |-> 0,
                    address_components |-> ComponentBits({"NAME", "STREET"}),
                    toggles |-> {"lowercase", "replace_word_hyphens"}]]

NativeDefaults == {LibpostalDefaults, OtherDefaults}

\* libpostal_get_default_options(): what the native library returns.
NormalizeDefaults == defaults.normalize

GetDefaultOptions == Call("libpostal_get_default_options", Unit, NormalizeDefaults)

\* A step on a LibpostalNormalizeOptions value o: the value after it, the
\* native calls and allocator events of the step, and whether it panicked.
Step(o, calls, m, kind) == [o |-> o, calls |-> calls, mem |-> m, kind |-> kind]

\* a; f(o) where f runs on the value a left, only when a ended normally.
AndThen(a, f(_)) ==
    LET Both(b) == Step(b.o, a.calls \o b.calls, a.mem \o Later(b.mem, Len(a.calls)), b.kind)
    IN  IF a.kind # "Ok" THEN a ELSE Both(f(a.o))

\* Default for LibpostalNormalizeOptions as it would be with the defaults of
\* libpostal written out in the crate.
LibpostalNormalizeOptions_default_hardcoded ==
    Step([ffi |-> Some(LibpostalNormalizeDefaults), lang_buffer |-> NONE],
         <<GetDefaultOptions>>, <<>>, "Ok")

\* impl Default for LibpostalNormalizeOptions.
LibpostalNormalizeOptions_default ==
    Step([ffi |-> Some(NormalizeDefaults), lang_buffer |-> NONE],
         <<GetDefaultOptions>>, <<>>, "Ok")

\* inner_mut: get_or_insert evaluates its argument, the native getter, on
\* every call, and keeps the value only when ffi is None.
inner_mut(o) ==
    Step(IF o.ffi = NONE THEN [o EXCEPT !.ffi = Some(NormalizeDefaults)] ELSE o,
         <<GetDefaultOptions>>, <<>>, "Ok")

\* free_lang_ptrs: releases the num_languages pointers of the ffi options, as
\* Rust CStrings when a language buffer is held, else with libc::free.
free_lang_ptrs(o) ==
    LET c_strings_buffered == o.lang_buffer # NONE
        Release(im, ffi) ==
            Step(im.o, im.calls,
                 [i \in 1..ffi.num_languages |->
                    Event(IF c_strings_buffered THEN "from_raw" ELSE "libc_free",
                          ffi.languages[i], Len(im.calls))],
                 "Ok")
    IN  Release(inner_mut(o), Get(inner_mut(o).o.ffi))

\* update_string_options as it would be with the fields of the flags not in
\* string_options left as they are.
update_string_options_sets_only(o, string_options) ==
    LET Assign(im) ==
            Step([im.o EXCEPT !.ffi[1].toggles =
                                @ \cup {StringOptionField[f] : f \in string_options}],
                 im.calls, <<>>, "Ok")
    IN  Assign(inner_mut(o))

\* update_string_options: toggles is the set of the boolean fields that are
\* true; each of the eighteen fields is assigned.
update_string_options(o, string_options) ==
    LET Assign(im) ==
            Step([im.o EXCEPT !.ffi[1].toggles =
                                {StringOptionField[f] : f \in string_options}],
                 im.calls, <<>>, "Ok")
    IN  Assign(inner_mut(o))

update_address_components(o, address_components) ==
    LET Assign(im) ==
            Step([im.o EXCEPT !.ffi[1].address_components =
                                ComponentBits(address_components)],
                 im.calls, <<>>, "Ok")
    IN  Assign(inner_mut(o))

\* The languages before the first one CString::new rejects.
GoodPrefix(languages) ==
    IF \E i \in 1..Len(languages) : HasNul(languages[i])
    THEN (CHOOSE i \in 1..Len(languages) :
            HasNul(languages[i]) /\ \A j \in 1..(i-1) : ~HasNul(languages[j])) - 1
    ELSE Len(languages)

\* update_languages: CString::new(s).unwrap() panics on a language with a NUL.
update_languages(o, languages) ==
    IF o.lang_buffer # NONE THEN Step(o, <<>>, <<>>, "Ok")
    ELSE
    LET k == GoodPrefix(languages)
        lang_buffer == [i \in 1..k |-> [at |-> i, bytes |-> CString_new(languages[i]).val]]
        Raws(n) == [i \in 1..k |-> Event("into_raw", lang_buffer[i], n)]
        Assign(freed, im) ==
            Step([im.o EXCEPT !.ffi[1].languages = lang_buffer,
                              !.ffi[1].num_languages = Len(lang_buffer),
                              !.lang_buffer = Some(lang_buffer)],
                 freed.calls \o im.calls,
                 freed.mem \o Raws(Len(freed.calls))
                           \o <<Event("vec_collect", lang_buffer, Len(freed.calls))>>,
                 "Ok")
        Collect(freed) ==
            IF k < Len(languages)
            THEN Step(freed.o, freed.calls, freed.mem \o Raws(Len(freed.calls)), "panic")
            ELSE Assign(freed, inner_mut(freed.o))
    IN  Collect(free_lang_ptrs(o))

\* libpostal_expand_address returns an array of n C strings (or NULL, n = 0).
ExpandResults ==
    {[n |-> 0, raw |-> NULL]} \cup
    UNION {[n : {k}, raw : {Some(a) : a \in [1..k -> NativeCStrs]}] : k \in 0..MaxVariants}

\* The copy loop of expand as it would be with a variant that was already
\* copied left out.
RECURSIVE CopyVariations_dedup(_, _, _)
CopyVariations_dedup(res, i, acc) ==
    IF i > res.n THEN [ok |-> TRUE, val |-> acc]
    ELSE LET variation == to_str(CStr_from_ptr(Get(res.raw)[i])) IN
         IF ~variation.ok THEN [ok |-> FALSE, val |-> acc]
         ELSE CopyVariations_dedup(res, i + 1,
                  IF \E j \in 1..Len(acc) : acc[j] = variation.val THEN acc
                  ELSE Append(acc, variation.val))

\* The copy loop of expand over raw[i..n].
RECURSIVE CopyVariations(_, _, _)
CopyVariations(res, i, acc) ==
    IF i > res.n THEN [ok |-> TRUE, val |-> acc]
    ELSE LET variation == to_str(CStr_from_ptr(Get(res.raw)[i])) IN
         IF ~variation.ok THEN [ok |-> FALSE, val |-> acc]
         ELSE CopyVariations(res, i + 1, Append(acc, variation.val))

\* LibpostalNormalizeOptions::expand(&mut self, address); res is what the
\* native expansion call returns.  val is the NormalizedAddress.
LibpostalNormalizeOptions_expand(o, address, res) ==
    IF o.ffi = NONE
    THEN [o |-> o, calls |-> <<>>, mem |-> <<>>, kind |-> "panic", val |-> "unwrap on None"]
    ELSE
    LET options == Get(o.ffi)
        taken == [o EXCEPT !.ffi = NONE]
        call == Call("libpostal_expand_address", [address |-> address, options |-> options], res)
        copied == CopyVariations(res, 1, <<>>)
    IN  IF ~copied.ok
        THEN [o |-> taken, calls |-> <<call>>, mem |-> <<>>, kind |-> "panic", val |-> "Utf8Error"]
        ELSE [o |-> taken,
              calls |-> <<call, Call("libpostal_expansion_array_destroy",
                                     [raw |-> res.raw, n |-> res.n], Unit)>>,
              mem |-> <<>>, kind |-> "Ok",
              val |-> [variations |-> copied.val, n |-> res.n]]

\* impl Drop for LibpostalNormalizeOptions, and the drop of the fields that
\* follows it: the vector of language pointers is released.
LibpostalNormalizeOptions_drop(o) ==
    LET DropFields(freed) ==
            Step(freed.o, freed.calls,
                 freed.mem \o (IF o.lang_buffer # NONE
                                THEN <<Event("vec_drop", Get(o.lang_buffer), Len(freed.calls))>>
                                ELSE <<>>),
                 freed.kind)
    IN  DropFields(free_lang_ptrs(o))

\* impl Default for NormalizeOptions: the value and the native call made.
NormalizeOptions_default ==
    [languages |-> NONE, address_components |-> NONE, string_options |-> NONE,
     libpostal_options |-> LibpostalNormalizeOptions_default.o]

\* NormalizeOptions::new(languages).
NormalizeOptions_new(languages) == [NormalizeOptions_default EXCEPT !.languages = languages]

\* NormalizeOptions::libpostal_options(&self): a panic unwinds through the
\* local options value, which is dropped.
libpostal_options(self) ==
    LET a == LibpostalNormalizeOptions_default
        UpdS(o) == IF self.string_options # NONE
                   THEN update_string_options(o, Get(self.string_options))
                   ELSE Step(o, <<>>, <<>>, "Ok")
        UpdA(o) == IF self.address_components # NONE
                   THEN update_address_components(o, Get(self.address_components))
                   ELSE Step(o, <<>>, <<>>, "Ok")
        UpdL(o) == IF self.languages # NONE
                   THEN update_languages(o, Get(self.languages))
                   ELSE Step(o, <<>>, <<>>, "Ok")
        Unwind(r, d) ==
            Step(d.o, r.calls \o d.calls, r.mem \o Later(d.mem, Len(r.calls)), "panic")
        Return(r) ==
            IF r.kind = "panic" THEN Unwind(r, LibpostalNormalizeOptions_drop(r.o)) ELSE r
    IN  Return(AndThen(AndThen(AndThen(a, UpdS), UpdA), UpdL))

\* NormalizeOptions::expand as it would be with the local options value
\* dropped before the native call is made.
NormalizeOptions_expand_dropped_early(self, address, res) ==
    LET c_address == CString_new(address)
        Rejected(built, d) ==
            Done(built.calls \o d.calls, built.mem \o Later(d.mem, Len(built.calls)),
                 "Err", "NulError")
        Expanded(built, d, e) ==
            Done(built.calls \o d.calls \o e.calls,
                 built.mem \o Later(d.mem, Len(built.calls))
                           \o Later(e.mem, Len(built.calls) + Len(d.calls)),
                 e.kind, e.val)
        Dropped(built, d) ==
            Expanded(built, d, LibpostalNormalizeOptions_expand(d.o, c_address.val, res))
        Built(built) ==
            IF built.kind = "panic" THEN Done(built.calls, built.mem, "panic", "NulError")
            ELSE IF ~c_address.ok
            THEN Rejected(built, LibpostalNormalizeOptions_drop(built.o))
            ELSE Dropped(built, LibpostalNormalizeOptions_drop(built.o))
    IN  Method(Built(libpostal_options(self)), self)

\* NormalizeOptions::expand as it would be with the native options built in
\* the wrapper kept in self.libpostal_options, which stays in self after the
\* call, instead of in a local value.
NormalizeOptions_expand_stored(self, address, res) ==
    LET c_address == CString_new(address)
        UpdS(o) == IF self.string_options # NONE
                   THEN update_string_options(o, Get(self.string_options))
                   ELSE Step(o, <<>>, <<>>, "Ok")
        UpdA(o) == IF self.address_components # NONE
                   THEN update_address_components(o, Get(self.address_components))
                   ELSE Step(o, <<>>, <<>>, "Ok")
        UpdL(o) == IF self.languages # NONE
                   THEN update_languages(o, Get(self.languages))
                   ELSE Step(o, <<>>, <<>>, "Ok")
        Stored(o) == [self EXCEPT !.libpostal_options = o]
        Expanded(built, e) ==
            Method(Done(built.calls \o e.calls,
                        built.mem \o Later(e.mem, Len(built.calls)), e.kind, e.val),
                   Stored(e.o))
        Built(built) ==
            IF built.kind = "panic"
            THEN Method(Done(built.calls, built.mem, "panic", "NulError"), Stored(built.o))
            ELSE IF ~c_address.ok
            THEN Method(Done(built.calls, built.mem, "Err", "NulError"), Stored(built.o))
            ELSE Expanded(built,
                          LibpostalNormalizeOptions_expand(built.o, c_address.val, res))
    IN  Built(AndThen(AndThen(AndThen(Step(self.libpostal_options, <<>>, <<>>, "Ok"),
                                      UpdS), UpdA), UpdL))

\* NormalizeOptions::expand(&mut self, address): the local options value is
\* dropped on every way out.  The native options are built in that local
\* value, and no field of self is assigned.
NormalizeOptions_expand(self, address, res) ==
    LET c_address == CString_new(address)
        Rejected(built, d) ==
            Done(built.calls \o d.calls, built.mem \o Later(d.mem, Len(built.calls)),
                 "Err", "NulError")
        Dropped(built, e, d) ==
            Done(built.calls \o e.calls \o d.calls,
                 built.mem \o Later(e.mem, Len(built.calls))
                           \o Later(d.mem, Len(built.calls) + Len(e.calls)),
                 e.kind, e.val)
        Expanded(built, e) == Dropped(built, e, LibpostalNormalizeOptions_drop(e.o))
        Built(built) ==
            IF built.kind = "panic" THEN Done(built.calls, built.mem, "panic", "NulError")
            ELSE IF ~c_address.ok
            THEN Rejected(built, LibpostalNormalizeOptions_drop(built.o))
            ELSE Expanded(built,
                          LibpostalNormalizeOptions_expand(built.o, c_address.val, res))
    IN  Method(Built(libpostal_options(self)), self)

\* The drop of a NormalizeOptions value at the end of the free functions.
DropNormalizeOptions(self, r) ==
    LET Dropped(d) ==
            Done(r.calls \o d.calls, r.mem \o Later(d.mem, Len(r.calls)), r.kind, r.val)
    IN  Dropped(LibpostalNormalizeOptions_drop(self.libpostal_options))

\* expand_address(address).
expand_address(address, res) ==
    LET options == NormalizeOptions_default
        Constructed(r) ==
            Done(LibpostalNormalizeOptions_default.calls \o r.calls,
                 Later(r.mem, Len(LibpostalNormalizeOptions_default.calls)), r.kind, r.val)
    IN  DropNormalizeOptions(options,
                             Constructed(NormalizeOptions_expand(options, address, res)))

\* expand_address_with_options(address, languages).
expand_address_with_options(address, languages, res) ==
    LET options == NormalizeOptions_new(languages)
        Constructed(r) ==
            Done(LibpostalNormalizeOptions_default.calls \o r.calls,
                 Later(r.mem, Len(LibpostalNormalizeOptions_default.calls)), r.kind, r.val)
    IN  DropNormalizeOptions(options,
                             Constructed(NormalizeOptions_expand(options, address, res)))


\* The NormalizeOptions values a caller can hold: built by new and the add_*
\* methods (add_string_option and add_address_component store the flags).
LangStrs == {<<101, 110>>, <<101, 0>>}
LanguageChoices == {NONE} \cup {Some(l) : l \in SeqsOf(LangStrs, 0, MaxLangs)}
NormalizeOptionsValues ==
    {[NormalizeOptions_new(l) EXCEPT !.address_components = a, !.string_options = s] :
        l \in LanguageChoices,
        a \in {NONE, Some({"NAME", "LEVEL"})},
        s \in {NONE, Some({"TRANSLITERATE", "LOWERCASE"})}}

\* ------------------------------------------------------------------- state
\* The LibModules values of the program are kept as a bag: how many values
\* there are of each module, set up (a setup call on the value returned Ok)
\* or not.
TokenTypes == Modules \X BOOLEAN
Token(kind, ok) == <<kind, ok>>
Held(kind, ok) == tokens[Token(kind, ok)] > 0
RECURSIVE SumOver(_, _)
SumOver(f, S) == IF S = {} THEN 0 ELSE LET x == CHOOSE y \in S : TRUE IN f[x] + SumOver(f, S \ {x})
NumTokens == SumOver(tokens, TokenTypes)
Added(bag, tk) == [bag EXCEPT ![tk] = @ + 1]
Removed(bag, tk) == [bag EXCEPT ![tk] = @ - 1]

Threads == 1..NumThreads
IdleThread == [prog |-> <<>>, end |-> "Ok", started |-> FALSE]

NoOp == [op |-> "none", self |-> NONE, setupBefore |-> FALSE, input |-> NONE,
         kind |-> "Ok", val |-> Unit]

InitCommon ==
    /\ tokens = [tk \in TokenTypes |-> 0]
    /\ native = [p \in Parts |-> FALSE]
    /\ exited = FALSE
    /\ last = NoOp
    /\ trace = <<>>
    /\ mem = <<>>
    /\ thr = [t \in Threads |-> IdleThread]
    /\ inflight = [t \in Threads |-> NONE]

\* An operation ran to r: its native calls act on the global state, and the
\* operation is recorded.
Apply(opname, self, before, input, r) ==
    /\ ~exited
    /\ LET g == NativeRun(Global, r.calls) IN
       /\ WithinCap(g)
       /\ native' = g.init
       /\ balance' = g.bal
    /\ exited' = (r.kind = "exit")
    /\ last' = [op |-> opname, self |-> self, setupBefore |-> before, input |-> input,
                kind |-> r.kind, val |-> r.val]
    /\ trace' = r.calls
    /\ mem' = r.mem
    /\ UNCHANGED defaults

\* ------------------------------------------------------ lifecycle actions
\* let m = LibModules::<kind>;
Construct(kind) ==
    /\ NumTokens < MaxTokens
    /\ tokens' = Added(tokens, Token(kind, FALSE))
    /\ Apply("LibModules", kind, FALSE, NONE, Done(<<>>, <<>>, "Ok", Unit))
    /\ UNCHANGED thrVars

\* m.setup(), on a value of module kind that was (was not) set up before.
Setup(kind, before, ok) ==
    /\ Held(kind, before)
    /\ LET r == LibModules_setup(kind, ok) IN
       /\ Apply("LibModules::setup", kind, before, NONE, r)
       /\ tokens' = Added(Removed(tokens, Token(kind, before)),
                          Token(kind, before \/ r.kind = "Ok"))
    /\ UNCHANGED thrVars

\* m.clone(): derived, a copy of the value.
Clone(kind, before) ==
    /\ Held(kind, before)
    /\ NumTokens < MaxTokens
    /\ tokens' = Added(tokens, Token(kind, before))
    /\ Apply("LibModules::clone", kind, before, NONE, Done(<<>>, <<>>, "Ok", Unit))
    /\ UNCHANGED thrVars

\* m goes out of scope.
DropToken(kind, before) ==
    /\ Held(kind, before)
    /\ Apply("LibModules::drop", kind, before, NONE, LibModules_drop(kind))
    /\ tokens' = Removed(tokens, Token(kind, before))
    /\ UNCHANGED thrVars

\* setup(m): the deprecated free function; m is moved into it.
DeprecatedSetup(kind, before, ok) ==
    /\ Held(kind, before)
    /\ LET r == setup(kind, ok) IN
       /\ Apply("setup", kind, before, NONE, r)
       /\ tokens' = IF r.kind = "exit" THEN tokens ELSE Removed(tokens, Token(kind, before))
    /\ UNCHANGED thrVars

\* teardown(m): the deprecated free function; m is moved into it.
DeprecatedTeardown(kind, before) ==
    /\ Held(kind, before)
    /\ Apply("teardown", kind, before, NONE, teardown(kind))
    /\ tokens' = Removed(tokens, Token(kind, before))
    /\ UNCHANGED thrVars

\* ------------------------------------------------------- marshal actions
\* A call of a marshaling operation: its arguments and what the native library
\* will return to it.
Request(op, self, address, language, country, languages, raw, res) ==
    [op |-> op, self |-> self, address |-> address, language |-> language,
     country |-> country, languages |-> languages, raw |-> raw, res |-> res]

NoResult == [n |-> 0, raw |-> NULL]

\* The calls with addresses in A, native parse responses in P and native
\* expansion results in E.
Requests(A, P, E) ==
    {Request("AddressParserOptions::parse", Some(self), a, NONE, NONE, NONE, raw, NoResult) :
        self \in ParserOptions, a \in A, raw \in P}
    \cup {Request("parse_address", NONE, a, l, c, NONE, raw, NoResult) :
        a \in A, l \in Hints, c \in Hints, raw \in P}
    \cup {Request("NormalizeOptions::expand", Some(self), a, NONE, NONE, self.languages,
                   NULL, res) :
        self \in NormalizeOptionsValues, a \in A, res \in E}
    \cup {Request("expand_address", NONE, a, NONE, NONE, NONE, NULL, res) :
        a \in A, res \in E}
    \cup {Request("expand_address_with_options", NONE, a, NONE, NONE, ls, NULL, res) :
        a \in A, ls \in LanguageChoices, res \in E}

Pending(op) == req # NONE /\ Get(req).op = op

\* The call q runs to r.
Run(q, r) ==
    /\ Apply(q.op, q.self, FALSE, q, r)
    /\ req' = NONE
    /\ UNCHANGED <<tokens, thr, inflight>>

\* The pending call runs to r.
Serve(r) == Run(Get(req), r)

\* The pending method call runs to r: the object is recorded as the call left
\* it, and the request keeps the object as it was before.
ServeMethod(r) ==
    /\ Apply(Get(req).op, Some(r.self), FALSE, Get(req), r)
    /\ req' = NONE
    /\ UNCHANGED <<tokens, thr, inflight>>

\* options.parse(address)
Parse ==
    /\ Pending("AddressParserOptions::parse")
    /\ \E r \in {AddressParserOptions_parse(Get(Get(req).self), Get(req).address,
                                            Get(req).raw)} :
         ServeMethod(r)

\* parse_address(address, language, country)
ParseAddress ==
    /\ Pending("parse_address")
    /\ Serve(parse_address(Get(req).address, Get(req).language, Get(req).country,
                           Get(req).raw))

\* options.expand(address)
Expand ==
    /\ Pending("NormalizeOptions::expand")
    /\ \E r \in {NormalizeOptions_expand(Get(Get(req).self), Get(req).address,
                                         Get(req).res)} :
         ServeMethod(r)

\* expand_address(address)
ExpandAddress ==
    /\ Pending("expand_address")
    /\ Serve(expand_address(Get(req).address, Get(req).res))

\* expand_address_with_options(address, languages)
ExpandAddressWithOptions ==
    /\ Pending("expand_address_with_options")
    /\ Serve(expand_address_with_options(Get(req).address, Get(req).languages,
                                         Get(req).res))

LifeAddrs == {<<97>>}

\* parse_address(address, None, None) and expand_address(address) between the
\* lifecycle operations; the native library returns a null response.
LifeParseAddress ==
    /\ req = NONE
    /\ \E a \in LifeAddrs :
         Run(Request("parse_address", NONE, a, NONE, NONE, NONE, NULL, NoResult),
             parse_address(a, NONE, NONE, NULL))

LifeExpandAddress ==
    /\ req = NONE
    /\ \E a \in LifeAddrs :
         Run(Request("expand_address", NONE, a, NONE, NONE, NONE, NULL, NoResult),
             expand_address(a, NoResult))

\* ----------------------------------------------------------- specifications
\* The lifecycle operations, with parse and expand calls between them.

Init ==
    /\ InitCommon
    /\ defaults = LibpostalDefaults
    /\ balance = NONE
    /\ req = NONE

\* The operations on LibModules values.
Lifecycle ==
    \/ \E kind \in Modules : Construct(kind)
    \/ \E kind \in Modules, before \in BOOLEAN, ok \in SetupOutcomes : Setup(kind, before, ok)
    \/ \E kind \in Modules, before \in BOOLEAN : Clone(kind, before)
    \/ \E kind \in Modules, before \in BOOLEAN : DropToken(kind, before)
    \/ \E kind \in Modules, before \in BOOLEAN, ok \in SetupOutcomes :
          DeprecatedSetup(kind, before, ok)
    \/ \E kind \in Modules, before \in BOOLEAN : DeprecatedTeardown(kind, before)

Next ==
    \/ Lifecycle
    \/ LifeParseAddress
    \/ LifeExpandAddress

Spec == Init /\ [][Next]_vars

\* The same operations in a program whose scopes end: a LibModules value that
\* was set up does not stay in scope for ever.
ScopesEnd == \A kind \in Modules : WF_tokens(DropToken(kind, TRUE))

SpecScoped == Init /\ [][Lifecycle]_vars /\ ScopesEnd

\* The same operations, with the native setup and teardown calls counted.
InitCount ==
    /\ InitCommon
    /\ defaults = LibpostalDefaults
    /\ balance = Some([p \in Parts |-> 0])
    /\ req = NONE

SpecCount == InitCount /\ [][Next]_vars

\* The parsing operations: one call, drawn from every bounded input.
ParseRequests ==
    {r \in Requests(Strs, ParseResponses, {NoResult}) :
        r.op \in {"AddressParserOptions::parse", "parse_address"}}

InitParse ==
    /\ InitCommon
    /\ defaults \in NativeDefaults
    /\ balance = NONE
    /\ req \in {Some(r) : r \in ParseRequests}

NextParse ==
    \/ Parse
    \/ ParseAddress

SpecParse == InitParse /\ [][NextParse]_vars

\* The expansion operations: one call, drawn from every bounded input.
ExpandRequests ==
    {r \in Requests(Strs, {NULL}, ExpandResults) :
        r.op \in {"NormalizeOptions::expand", "expand_address",
                  "expand_address_with_options"}}

InitExpand ==
    /\ InitCommon
    /\ defaults \in NativeDefaults
    /\ balance = NONE
    /\ req \in {Some(r) : r \in ExpandRequests}

NextExpand ==
    \/ Expand
    \/ ExpandAddress
    \/ ExpandAddressWithOptions

SpecExpand == InitExpand /\ [][NextExpand]_vars

\* The projection of a response into a ParsedAddress, and the default value.
FoldRequests ==
    {Request("ParsedAddress::from", Some(r), <<>>, NONE, NONE, NONE, NULL, NoResult) :
        r \in FoldResponses}
    \cup {Request("parsed_address::ParsedAddress::from", Some(r), <<>>, NONE, NONE, NONE,
                   NULL, NoResult) :
        r \in FoldResponses}
    \cup {Request("ParsedAddress::default", NONE, <<>>, NONE, NONE, NONE, NULL, NoResult)}

InitFold ==
    /\ InitCommon
    /\ defaults = LibpostalDefaults
    /\ balance = NONE
    /\ req \in {Some(r) : r \in FoldRequests}

\* ParsedAddress::from(response)
From ==
    /\ Pending("ParsedAddress::from")
    /\ Serve(Done(<<>>, <<>>, "Ok", ParsedAddress_from(Get(Get(req).self))))

\* ParsedAddress::default()
Default ==
    /\ Pending("ParsedAddress::default")
    /\ Serve(Done(<<>>, <<>>, "Ok", ParsedAddress_default))

\* parsed_address::ParsedAddress::from(response)
FromStruct ==
    /\ Pending("parsed_address::ParsedAddress::from")
    /\ Serve(Done(<<>>, <<>>, "Ok", StructParsedAddress_from(Get(Get(req).self))))

NextFold ==
    \/ From
    \/ FromStruct
    \/ Default

SpecFold == InitFold /\ [][NextFold]_vars

\* The parsing and the expansion operations together.
SpecMarshal == (InitParse \/ InitExpand) /\ [][NextParse \/ NextExpand]_vars

\* ---------------------------------------------------- building the options
\* NormalizeOptions::add_string_option as it would be with the new flags
\* stored in place of the old ones.
add_string_option_replace(self, option) == [self EXCEPT !.string_options = Some(option)]

\* NormalizeOptions::add_string_option(&mut self, option): a flags value is
\* the set of its flags, insert is the bitwise or.
add_string_option(self, option) ==
    IF self.string_options # NONE
    THEN [self EXCEPT !.string_options = Some(Get(self.string_options) \cup option)]
    ELSE [self EXCEPT !.string_options = Some(option)]

\* NormalizeOptions::add_address_component(&mut self, component).
add_address_component(self, component) ==
    IF self.address_components # NONE
    THEN [self EXCEPT !.address_components = Some(Get(self.address_components) \cup component)]
    ELSE [self EXCEPT !.address_components = Some(component)]

\* NormalizeOptions::languages, ::address_components, ::string_options.
NormalizeOptions_languages(self) ==
    IF self.languages # NONE THEN Some(Get(self.languages)) ELSE NONE

NormalizeOptions_address_components(self) == self.address_components

NormalizeOptions_string_options(self) == self.string_options

\* The flag values a caller adds: every named AddressComponents flag (NONE is
\* the empty value), and some StringOptions values.
ComponentArgs == {{}} \cup {{f} : f \in ComponentFlags}
StringArgs == {{}, {"TRANSLITERATE", "LOWERCASE"}, {"REPLACE_NUMERIC_HYPHENS"},
               {"LATIN_ASCII"}}
BuildLanguages == {NONE, Some(<<(<<101, 110>>)>>), Some(<<(<<101, 110>>), <<103, 114>>>>)}
AddOps == {"add_string_option", "add_address_component"}

\* let mut options = NormalizeOptions::new(languages); the object is kept in
\* the pending expand call.
InitOptions ==
    /\ InitCommon
    /\ defaults \in NativeDefaults
    /\ balance = NONE
    /\ req \in {Some(Request("NormalizeOptions::expand", Some(NormalizeOptions_new(l)),
                             <<97>>, NONE, NONE, l, NULL, NoResult)) :
                   l \in BuildLanguages}

\* The add_* calls made on the object so far.
Added_so_far == IF last.op \in AddOps THEN last.input ELSE <<>>

\* An add_* call turns the object into obj.
Add(op, arg, obj) ==
    /\ Len(Added_so_far) < MaxAdds
    /\ Apply(op, Some(obj), FALSE, Append(Added_so_far, [fn |-> op, arg |-> arg]),
             Done(<<>>, <<>>, "Ok", Unit))
    /\ req' = Some([Get(req) EXCEPT !.self = Some(obj)])
    /\ UNCHANGED <<tokens, thr, inflight>>

\* options.add_string_option(option)
AddStringOption ==
    /\ Pending("NormalizeOptions::expand")
    /\ \E option \in StringArgs :
         Add("add_string_option", option,
             add_string_option(Get(Get(req).self), option))

\* options.add_address_component(component)
AddAddressComponent ==
    /\ Pending("NormalizeOptions::expand")
    /\ \E component \in ComponentArgs :
         Add("add_address_component", component,
             add_address_component(Get(Get(req).self), component))

NextOptions ==
    \/ AddStringOption
    \/ AddAddressComponent
    \/ Expand

SpecOptions == InitOptions /\ [][NextOptions]_vars

\* An options object used for a second call.
\* The first calls: every options value and every native result, on one
\* address.
ReuseRequests ==
    {r \in Requests(LifeAddrs, ParseResponses, ExpandResults) :
        r.op \in {"AddressParserOptions::parse", "NormalizeOptions::expand"}}

\* The addresses of the second call.
ReuseAddrs == {<<97>>, <<98>>}

InitReuse ==
    /\ InitCommon
    /\ defaults \in NativeDefaults
    /\ balance = NONE
    /\ req \in {Some(r) : r \in ReuseRequests}

\* The first call returned Ok and no second call was made yet.
Reusable(op, F) ==
    /\ req = NONE
    /\ last.op = op
    /\ last.kind = "Ok"
    /\ Len(CallsTo(trace, F)) = 1

\* The second call, on the object the first call left, runs to r: its native
\* calls and allocator events follow those of the first.
Again(r) ==
    /\ ~exited
    /\ LET g == NativeRun(Global, r.calls) IN
       /\ WithinCap(g)
       /\ native' = g.init
       /\ balance' = g.bal
    /\ exited' = (r.kind = "exit")
    /\ last' = [last EXCEPT !.self = Some(r.self), !.kind = r.kind, !.val = r.val]
    /\ trace' = trace \o r.calls
    /\ mem' = mem \o Later(r.mem, Len(trace))
    /\ UNCHANGED <<defaults, tokens, req, thrVars>>

\* options.parse(address); options.parse(address2)
ParseAgain ==
    /\ Reusable("AddressParserOptions::parse", {"libpostal_parse_address"})
    /\ \E address \in ReuseAddrs, raw \in ParseResponses :
         \E r \in {AddressParserOptions_parse(Get(last.self), address, raw)} : Again(r)

\* options.expand(address); options.expand(address2)
ExpandAgain ==
    /\ Reusable("NormalizeOptions::expand", {"libpostal_expand_address"})
    /\ \E address \in ReuseAddrs, res \in ExpandResults :
         \E r \in {NormalizeOptions_expand(Get(last.self), address, res)} : Again(r)

NextReuse ==
    \/ Parse
    \/ Expand
    \/ ParseAgain
    \/ ExpandAgain

SpecReuse == InitReuse /\ [][NextReuse]_vars


\* ------------------------------------------------------------- concurrency
\* What one test thread does (tests/address.rs, tests/expand.rs, the example
\* of lib.rs): set a LibModules value up, parse and/or expand the addresses of
\* its cases, and drop the value when the test function returns or unwinds.
\* No lock is taken anywhere, so a thread is a sequence of native calls, each
\* with a beginning and an end.
Tests == {"parse", "parse_address_to_parsed_address_struct", "expand",
          "expand_with_options", "example"}

TestModule(test) ==
    CASE test \in {"parse", "parse_address_to_parsed_address_struct"} -> "Address"
      [] test \in {"expand", "expand_with_options"} -> "Expand"
      [] test = "example" -> "All"

\* The number of cases of a test: us_parse, gb_parse, es_parse; TEST_CASES.
ParseCases == 3
TEST_CASES == 12

\* The address, the pairs and the phrase the cases expect, and the language
\* code they pass.
TestAddress == <<97>>
TestExpected == <<(<<(<<98>>), <<97>>>>)>>
TestPhrase == <<97>>
TestLanguages == Some(<<(<<101, 110>>)>>)

\* What the native library returns to every call of a test: nothing, or what
\* the cases expect.
TestReturns ==
    {[raw |-> NULL, res |-> NoResult],
     [raw |-> Some([num_components |-> 1, components |-> <<(<<97, NUL>>)>>,
                    labels |-> <<(<<98, NUL>>)>>]),
      res |-> [n |-> 1, raw |-> Some(<<(<<97, NUL>>)>>)]]}

\* Result::unwrap.
Unwrapped(r) ==
    IF r.kind = "Err" THEN Done(r.calls, r.mem, "panic", "unwrap on Err") ELSE r

\* assert!(cond(val)) on the value of r.
Asserted(r, cond(_)) ==
    IF r.kind # "Ok" THEN r
    ELSE IF cond(r.val) THEN Done(r.calls, r.mem, "Ok", Unit)
    ELSE Done(r.calls, r.mem, "panic", "assertion failed")

\* assert_actual_eq_expected(address, expected) of tests/address.rs.
assert_actual_eq_expected(address, expected, raw) ==
    LET Equal(response) == AddressParserResponse_into_iter(response) = expected
    IN  Asserted(Unwrapped(parse_address(address, NONE, NONE, raw)), Equal)

\* us_parse_to_struct, gb_parse_to_struct, es_parse_to_struct of
\* tests/address.rs: the getter of each expected label returns its token.
parse_to_struct(address, expected, raw) ==
    LET Matches(response) ==
            \A i \in 1..Len(expected) :
                HashMap_get(ParsedAddress_from(response).label_to_token, expected[i][1])
                    = Some(expected[i][2])
    IN  Asserted(Unwrapped(parse_address(address, NONE, NONE, raw)), Matches)

\* assert!(expansion_contains_phrase(address, phrase)) and
\* assert!(expansion_contains_phrase_with_options(address, phrase, lang)) of
\* tests/expand.rs.
Contains(expansion, phrase) ==
    \E i \in 1..Len(expansion.variations) : expansion.variations[i] = phrase

expansion_contains_phrase(address, phrase, res) ==
    LET Found(expansion) == Contains(expansion, phrase)
    IN  Asserted(Unwrapped(expand_address(address, res)), Found)

expansion_contains_phrase_with_options(address, phrase, lang, res) ==
    LET Found(expansion) == Contains(expansion, phrase)
    IN  Asserted(Unwrapped(expand_address_with_options(address, lang, res)), Found)

\* body is run n times, up to the first run that does not end normally.
RECURSIVE Repeat(_, _)
Repeat(body, n) ==
    IF n = 0 THEN Done(<<>>, <<>>, "Ok", Unit) ELSE Then(body, Repeat(body, n - 1))

\* The statements of a test between setup()? and the end of the function.
TestBody(test, ret) ==
    CASE test = "parse" ->
            Repeat(assert_actual_eq_expected(TestAddress, TestExpected, ret.raw),
                   ParseCases)
      [] test = "parse_address_to_parsed_address_struct" ->
            Repeat(parse_to_struct(TestAddress, TestExpected, ret.raw), ParseCases)
      [] test = "expand" ->
            Repeat(expansion_contains_phrase(TestAddress, TestPhrase, ret.res), TEST_CASES)
      [] test = "expand_with_options" ->
            Repeat(expansion_contains_phrase_with_options(TestAddress, TestPhrase,
                                                          TestLanguages, ret.res),
                   TEST_CASES)
      [] test = "example" ->
            Then(parse_address(TestAddress, NONE, NONE, ret.raw),
                 expand_address_with_options(TestAddress, TestLanguages, ret.res))

\* A test function: postal_module is dropped when the function returns and
\* when it unwinds; process::exit runs no destructor.
TestProgram(test, ok, ret) ==
    LET Dropped(r) ==
            Done(r.calls \o LibModules_drop(TestModule(test)).calls, r.mem, r.kind, r.val)
        After(s) ==
            IF s.kind = "exit" THEN s
            ELSE IF s.kind = "Err" THEN Dropped(s)
            ELSE Dropped(Then(s, TestBody(test, ret)))
    IN  After(LibModules_setup(TestModule(test), ok))

\* The test runner starts the test of thread t.
Start(t, test, ok, ret) ==
    /\ ~exited
    /\ ~thr[t].started
    /\ \E p \in {TestProgram(test, ok, ret)} :
         thr' = [thr EXCEPT ![t] = [prog |-> p.calls, end |-> p.kind, started |-> TRUE]]
    /\ UNCHANGED <<tokens, native, balance, exited, last, trace, mem, req, inflight, defaults>>

\* Thread t enters its next native call.
Begin(t) ==
    /\ ~exited
    /\ inflight[t] = NONE
    /\ thr[t].prog # <<>>
    /\ inflight' = [inflight EXCEPT ![t] = Some(Head(thr[t].prog))]
    /\ UNCHANGED <<tokens, native, balance, exited, last, trace, mem, req, thr, defaults>>

\* The native call of thread t returns.
End(t) ==
    /\ ~exited
    /\ inflight[t] # NONE
    /\ LET g == NativeStep(Global, Get(inflight[t])) IN
       /\ native' = g.init
       /\ balance' = g.bal
    /\ inflight' = [inflight EXCEPT ![t] = NONE]
    /\ thr' = [thr EXCEPT ![t].prog = Tail(@)]
    /\ UNCHANGED <<tokens, exited, last, trace, mem, req, defaults>>

\* process::exit(1) in thread t, after its failed subsystem setup call has
\* returned: until the process has ended the other threads go on.
Exit(t) ==
    /\ ~exited
    /\ thr[t].started
    /\ thr[t].prog = <<>>
    /\ inflight[t] = NONE
    /\ thr[t].end = "exit"
    /\ exited' = TRUE
    /\ UNCHANGED <<tokens, native, balance, last, trace, mem, req, thr, inflight, defaults>>

NextConc ==
    \/ \E t \in Threads, test \in Tests, ok \in SetupOutcomes, ret \in TestReturns :
         Start(t, test, ok, ret)
    \/ \E t \in Threads : Begin(t)
    \/ \E t \in Threads : End(t)
    \/ \E t \in Threads : Exit(t)

SpecConc == Init /\ [][NextConc]_vars

\* ------------------------------------------------------------------ claims
ParseOps == {"AddressParserOptions::parse", "parse_address"}
ExpandOps == {"NormalizeOptions::expand", "expand_address", "expand_address_with_options"}

\* The operation returned the NulError error and issued no native call.
RejectedBeforeNative == last.kind = "Err" /\ last.val = "NulError" /\ Len(trace) = 0

\* C1: an expand operation given an address with a NUL byte returns NulError
\* and has issued no native call at all, the default-options getter included.
C1_ExpandNulNoNativeCall ==
    (last.op \in ExpandOps /\ HasNul(last.input.address)) => RejectedBeforeNative

\* C2: a parse operation given an address with a NUL byte returns NulError and
\* has issued no native call: no getter, no parse call, no destructor.
C2_ParseNulNoNativeCall ==
    (last.op \in ParseOps /\ HasNul(last.input.address)) => RejectedBeforeNative

\* C2 witness: parse_address with valid hints and an address holding a NUL was
\* rejected by parse itself.
C2_Witness ==
    /\ last.op = "parse_address"
    /\ last.input.address = <<97, 0>>
    /\ last.input.language = Some(<<101, 110>>)
    /\ last.input.country = NONE
    /\ last.kind = "Err"

\* Some string placed in the options of the last operation holds a NUL byte.
OptionStringHasNul ==
    \/ /\ last.op = "parse_address"
       /\ \/ last.input.language # NONE /\ HasNul(Get(last.input.language))
          \/ last.input.country # NONE /\ HasNul(Get(last.input.country))
    \/ /\ last.op \in {"NormalizeOptions::expand", "expand_address_with_options"}
       /\ last.input.languages # NONE
       /\ \E i \in 1..Len(Get(last.input.languages)) : HasNul(Get(last.input.languages)[i])

\* C3: a parse hint or a normalize language code with a NUL byte is rejected
\* with the NulError error value, never a panic, before any native call.
C3_OptionNulRejected == OptionStringHasNul => RejectedBeforeNative

\* A native setup entry point reported failure during the last operation.
NativeSetupFailed == \E i \in 1..Len(trace) : trace[i].fn \in SetupFns /\ trace[i].ret = FALSE

\* C4: when a native setup entry point reports failure during
\* LibModules::setup, setup returns Err(SetupError) and the process goes on.
C4_SetupFailureIsError ==
    (last.op = "LibModules::setup" /\ NativeSetupFailed) => (last.kind = "Err" /\ ~exited)

\* C5: dropping a LibModules value on which no setup call succeeded invokes no
\* native teardown entry point.
C5_NoTeardownWithoutSetup ==
    (last.op = "LibModules::drop" /\ ~last.setupBefore) =>
        Len(CallsTo(trace, TeardownFns)) = 0

\* C6: each native teardown entry point has been invoked at most as often as
\* its setup entry point succeeded, and exactly as often once no LibModules
\* value is left.
C6_TeardownOncePerSetup ==
    balance # NONE =>
        /\ \A p \in Parts : Get(balance)[p] >= 0
        /\ NumTokens = 0 => \A p \in Parts : Get(balance)[p] = 0

\* The last operation reached the native entry point f.
Reached(f) == \E i \in 1..Len(trace) : trace[i].fn = f

\* C7: the native parse entry point is reached only with the base state and
\* the parser initialised, the native expansion entry point only with the base
\* state and the language classifier initialised.
C7_MarshalOnlyWhenReady ==
    /\ Reached("libpostal_parse_address") => (native["base"] /\ native["parser"])
    /\ Reached("libpostal_expand_address") => (native["base"] /\ native["classifier"])

\* C8: no native setup or teardown call is in progress in one thread while
\* another thread is inside a native setup, teardown, parse or expand call.
C8_SetupTeardownExclusive ==
    \A t \in Threads, u \in Threads :
        (t # u /\ inflight[t] # NONE /\ inflight[u] # NONE
             /\ Get(inflight[t]).fn \in SetupFns \cup TeardownFns)
        => Get(inflight[u]).fn \notin SetupFns \cup TeardownFns \cup MarshalFns

\* The parts of the native state a value of module kind relies on.
PartsOfModule(kind) ==
    CASE kind = "Address" -> {"base", "parser"}
      [] kind = "Expand" -> {"base", "classifier"}
      [] kind = "All" -> {"base", "parser", "classifier"}

\* C9: after a LibModules value is dropped, every value still alive whose
\* setup succeeded has the native state it relies on initialised.
C9_DropKeepsLiveTokens ==
    last.op = "LibModules::drop" =>
        \A kind \in Modules :
            Held(kind, TRUE) => \A p \in PartsOfModule(kind) : native[p]

\* The number of calls of the last operation to f with argument a.
Destroyed(f, a) == Len(SelectSeq(trace, LAMBDA c : c.fn = f /\ c.arg = a))

\* C10: every response the native parse call returned and every array the
\* native expansion call returned is destroyed exactly once by the operation
\* that obtained it, however that operation ends; the array with the count n
\* the expansion call returned.
C10_DestroyedExactlyOnce ==
    \A i \in 1..Len(trace) :
        /\ (trace[i].fn = "libpostal_parse_address" /\ trace[i].ret # NULL) =>
              Destroyed("libpostal_address_parser_response_destroy", trace[i].ret) = 1
        /\ trace[i].fn = "libpostal_expand_address" =>
              Destroyed("libpostal_expansion_array_destroy",
                        [raw |-> trace[i].ret.raw, n |-> trace[i].ret.n]) = 1

SubsystemSetupFns == SetupFns \ {"libpostal_setup"}
SubsystemTeardownFns == TeardownFns \ {"libpostal_teardown"}

\* C11: when a LibModules value is released, by Drop or by the deprecated
\* teardown function, the base teardown entry point is invoked after every
\* subsystem teardown entry point.
C11_BaseTeardownLast ==
    last.op \in {"LibModules::drop", "teardown"} =>
        \A i \in 1..Len(trace), j \in 1..Len(trace) :
            (trace[i].fn = "libpostal_teardown" /\ trace[j].fn \in SubsystemTeardownFns)
                => j < i

\* C12: LibModules::setup and the deprecated setup invoke the base setup
\* first, a subsystem setup only after the base setup returned success, and no
\* subsystem setup when the base setup failed.
C12_BaseSetupFirst ==
    last.op \in {"LibModules::setup", "setup"} =>
        /\ Len(trace) > 0
        /\ trace[1].fn = "libpostal_setup"
        /\ \A i \in 1..Len(trace) :
              trace[i].fn \in SubsystemSetupFns =>
                  \E j \in 1..(i - 1) : trace[j].fn = "libpostal_setup" /\ trace[j].ret = TRUE
        /\ trace[1].ret = FALSE => Len(CallsTo(trace, SubsystemSetupFns)) = 0

\* C12 witness: LibModules::All.setup() ran the base setup and both subsystem
\* setups.
C12_Witness ==
    /\ last.op = "LibModules::setup"
    /\ last.self = "All"
    /\ last.kind = "Ok"
    /\ Len(CallsTo(trace, SubsystemSetupFns)) = 2

\* C13: when the deprecated setup(component) has returned, no native teardown
\* entry point has been invoked and the base state and the subsystems of
\* component are initialised.
C13_DeprecatedSetupKeepsState ==
    (last.op = "setup" /\ last.kind = "Ok") =>
        /\ Len(CallsTo(trace, TeardownFns)) = 0
        /\ \A p \in PartsOfModule(last.self) : native[p]

\* The last operation released a value of module kind and invoked the native
\* teardown of each of its subsystems.
TornDown(kind) ==
    /\ last.op \in {"LibModules::drop", "teardown", "setup"}
    /\ last.self = kind
    /\ \A p \in PartsOfModule(kind) \ {"base"} :
          \E i \in 1..Len(trace) : trace[i].fn \in SubsystemTeardownFns /\ PartOf(trace[i].fn) = p

\* C14: once setup has succeeded on a LibModules value, the native teardown of
\* its subsystems is eventually invoked, whatever way the program leaves the
\* scope of the value.
C14_ScopedRelease == \A kind \in Modules : Held(kind, TRUE) ~> TornDown(kind)

\* The text of a C string the native library returned: its bytes before the
\* terminator.
TextOf(c) == SubSeq(c, 1, Len(c) - 1)

\* C15: parse returns one (label, token) pair for each of the k components of
\* the native response, the i-th pair being (labels[i], components[i]), and
\* iteration by value and by reference both give these pairs, label first.
C15_OrderPreserved ==
    (last.op \in ParseOps /\ last.kind = "Ok" /\ last.input.raw # NULL) =>
        LET parsed == Get(last.input.raw)
            pairs == AddressParserResponse_into_iter(last.val)
        IN  /\ Len(pairs) = parsed.num_components
            /\ \A i \in 1..parsed.num_components :
                  pairs[i] = <<TextOf(parsed.labels[i]), TextOf(parsed.components[i])>>
            /\ AddressParserResponse_iter(last.val) = pairs

\* C15 witness: parse_address returned the pairs of a response of two
\* components with different tokens.
C15_Witness ==
    /\ last.op = "parse_address"
    /\ last.kind = "Ok"
    /\ last.input.raw # NULL
    /\ Get(last.input.raw).num_components = 2
    /\ Get(last.input.raw).components = <<<<97, NUL>>, <<98, NUL>>>>
    /\ AddressParserResponse_into_iter(last.val) = <<<<<<98>>, <<97>>>>, <<<<98>>, <<98>>>>>>

\* C16: when the native parse call returns a null response, parse returns Ok
\* with no label and no token.
C16_NullResponseIsEmpty ==
    (last.op \in ParseOps
        /\ \E i \in 1..Len(trace) :
              trace[i].fn = "libpostal_parse_address" /\ trace[i].ret = NULL)
    => (last.kind = "Ok" /\ last.val.tokens = <<>> /\ last.val.labels = <<>>)

\* C16 witness: AddressParserOptions::parse got a null response from the
\* native parse call.
C16_Witness ==
    /\ last.op = "AddressParserOptions::parse"
    /\ last.input.raw = NULL
    /\ Reached("libpostal_parse_address")
    /\ last.kind = "Ok"

\* C17: expand returns the n strings of the native expansion result, the i-th
\* variation being a copy of the i-th native string, duplicates kept, and the
\* count it records is n, the number of variations.
C17_VariantsPassThrough ==
    (last.op \in ExpandOps /\ last.kind = "Ok") =>
        LET res == last.input.res IN
        /\ last.val.n = res.n
        /\ Len(last.val.variations) = res.n
        /\ \A i \in 1..res.n : last.val.variations[i] = TextOf(Get(res.raw)[i])

\* C17 witness: expand_address returned the two equal variants the native
\* library produced.
C17_Witness ==
    /\ last.op = "expand_address"
    /\ last.kind = "Ok"
    /\ last.input.res.n = 2
    /\ Get(last.input.res.raw) = <<<<97, NUL>>, <<97, NUL>>>>
    /\ last.val.variations = <<<<97>>, <<97>>>>

\* No string given to the last operation holds a NUL byte.
InputsNulFree ==
    /\ ~HasNul(last.input.address)
    /\ last.input.language # NONE => ~HasNul(Get(last.input.language))
    /\ last.input.country # NONE => ~HasNul(Get(last.input.country))

\* C18: given strings without a NUL byte, parse_address and expand_address
\* end with a successful result, or with the SetupFailure error and no other
\* error.
C18_NoOtherError ==
    (last.op \in {"parse_address", "expand_address"} /\ InputsNulFree) =>
        \/ last.kind = "Ok"
        \/ last.kind = "Err" /\ last.val = "SetupError"

\* The positions of the pairs of response that carry label.
Carrying(response, label) ==
    {i \in 1..Len(response.labels) : response.labels[i] = label}

\* C19: each getter of the ParsedAddress made from a response returns the
\* token of the last pair that carries the getter's label, and None when no
\* pair carries it; every getter of the default ParsedAddress returns None.
C19_LastWriterWins ==
    /\ last.op = "ParsedAddress::from" =>
          \A field \in Fields :
              LET response == Get(last.input.self)
                  at == Carrying(response, FieldLabel[field])
              IN  ParsedAddress_get(last.val, field) =
                      IF at = {} THEN NONE
                      ELSE Some(response.tokens[CHOOSE i \in at : \A j \in at : j <= i])
    /\ last.op = "ParsedAddress::default" =>
          \A field \in Fields : ParsedAddress_get(last.val, field) = NONE

\* C19 witness: a response with the label road twice was folded, and road()
\* returns the second token.
C19_Witness ==
    /\ last.op = "ParsedAddress::from"
    /\ Get(last.input.self).labels = <<"road", "road">>
    /\ Get(last.input.self).tokens = <<"a", "b">>
    /\ ParsedAddress_get(last.val, "road") = Some("b")

\* The buffer p was released before the i-th native call of the last
\* operation was made.
ReleasedBefore(p, i) ==
    \E k \in 1..Len(mem) :
        mem[k].ev \in {"from_raw", "libc_free", "drop"} /\ mem[k].after < i /\ mem[k].ptr = p

\* The language-code buffer p was allocated before the i-th native call.
AllocatedBefore(p, i) ==
    \E k \in 1..Len(mem) : mem[k].ev = "into_raw" /\ mem[k].after < i /\ mem[k].ptr = p

\* The vector v of language pointers was released before the i-th native call.
VecReleasedBefore(v, i) ==
    \E k \in 1..Len(mem) : mem[k].ev = "vec_drop" /\ mem[k].after < i /\ mem[k].ptr = v

\* C20: when a native parse or expand call is made, no hint buffer and no
\* language-code buffer its options point to has been released, each
\* language-code buffer has been allocated, and the vector holding the
\* language pointers has not been released.
C20_OptionPointersValid ==
    \A i \in 1..Len(trace) :
        /\ trace[i].fn = "libpostal_parse_address" =>
              LET options == trace[i].arg.options IN
              /\ options.language # NULL => ~ReleasedBefore(Get(options.language), i)
              /\ options.country # NULL => ~ReleasedBefore(Get(options.country), i)
        /\ trace[i].fn = "libpostal_expand_address" =>
              LET options == trace[i].arg.options IN
              options.num_languages > 0 =>
                  /\ \A j \in 1..options.num_languages :
                        /\ AllocatedBefore(options.languages[j], i)
                        /\ ~ReleasedBefore(options.languages[j], i)
                  /\ ~VecReleasedBefore(options.languages, i)

\* C20 witness: expand_address_with_options with one language code made the
\* native expansion call with that language in its options.
C20_Witness ==
    /\ last.op = "expand_address_with_options"
    /\ last.kind = "Ok"
    /\ \E i \in 1..Len(trace) :
          /\ trace[i].fn = "libpostal_expand_address"
          /\ trace[i].arg.options.num_languages = 1
          /\ trace[i].arg.options.languages[1].bytes = <<101, 110, NUL>>

\* The NormalizeOptions of the last expand operation has no languages, no
\* address components and no string options set.
NormalizeUnset ==
    \/ last.op = "expand_address"
    \/ last.op = "expand_address_with_options" /\ last.input.languages = NONE
    \/ /\ last.op = "NormalizeOptions::expand"
       /\ Get(last.input.self).languages = NONE
       /\ Get(last.input.self).address_components = NONE
       /\ Get(last.input.self).string_options = NONE

\* The hint h ("language" or "country") was not given to the last parse
\* operation.
HintUnset(h) ==
    \/ last.op = "parse_address"
         /\ (IF h = "language" THEN last.input.language ELSE last.input.country) = NONE
    \/ last.op = "AddressParserOptions::parse"
         /\ (IF h = "language" THEN Get(last.input.self).language
             ELSE Get(last.input.self).country) = NONE

\* The i-th native call of the last operation was preceded by a call of the
\* getter f, and the value v is what every such call returned.
FromGetter(f, i, v) ==
    /\ \E j \in 1..(i - 1) : trace[j].fn = f
    /\ \A j \in 1..(i - 1) : trace[j].fn = f => trace[j].ret = v

\* C21: with nothing set in a NormalizeOptions, the options passed to the
\* native expansion call are the value the native default-options getter
\* returned; a parse hint that was not given leaves the field of the native
\* parse options as the native parser getter returned it.
C21_DefaultsFromNative ==
    \A i \in 1..Len(trace) :
        /\ (trace[i].fn = "libpostal_expand_address" /\ NormalizeUnset) =>
              FromGetter("libpostal_get_default_options", i, trace[i].arg.options)
        /\ trace[i].fn = "libpostal_parse_address" =>
              \E j \in 1..(i - 1) :
                  /\ trace[j].fn = "libpostal_get_address_parser_default_options"
                  /\ HintUnset("language") =>
                        trace[i].arg.options.language = trace[j].ret.language
                  /\ HintUnset("country") =>
                        trace[i].arg.options.country = trace[j].ret.country

\* C21 witness: with a native library whose defaults are not those of
\* libpostal, expand_address made the native expansion call.
C21_Witness ==
    /\ last.op = "expand_address"
    /\ last.kind = "Ok"
    /\ defaults = OtherDefaults
    /\ \E i \in 1..Len(trace) :
          /\ trace[i].fn = "libpostal_expand_address"
          /\ trace[i].arg.options = OtherDefaults.normalize

\* The native options of the native calls to the functions of F, in order.
\* A pointer is modelled by the buffer it points to, so two such values are
\* equal when the structures agree in everything but addresses.
OptionsPassed(F) ==
    [i \in 1..Len(CallsTo(trace, F)) |-> CallsTo(trace, F)[i].arg.options]

\* The options object of the last method call was used for two calls.
UsedTwice ==
    \/ last.op = "AddressParserOptions::parse"
         /\ Len(CallsTo(trace, {"libpostal_parse_address"})) = 2
    \/ last.op = "NormalizeOptions::expand"
         /\ Len(CallsTo(trace, {"libpostal_expand_address"})) = 2

\* C22: when one options object (NormalizeOptions or AddressParserOptions) is
\* used for two calls, whatever the addresses and the native results of the
\* two calls, the native options built for the second native call equal those
\* built for the first, and the object the calls leave is the object as it
\* was before them.
C22_BuildIdempotent ==
    UsedTwice =>
        /\ \A F \in {{"libpostal_parse_address"}, {"libpostal_expand_address"}} :
              \A i, j \in 1..Len(OptionsPassed(F)) :
                  OptionsPassed(F)[i] = OptionsPassed(F)[j]
        /\ last.self = last.input.self

\* C22 witness: a NormalizeOptions with languages, address components and
\* string options set was used for two expand calls on different addresses,
\* and the second native call was given the language.
C22_Witness ==
    /\ last.op = "NormalizeOptions::expand"
    /\ Len(OptionsPassed({"libpostal_expand_address"})) = 2
    /\ Get(last.input.self).languages = Some(<<(<<101, 110>>)>>)
    /\ Get(last.input.self).address_components # NONE
    /\ Get(last.input.self).string_options # NONE
    /\ OptionsPassed({"libpostal_expand_address"})[2].num_languages = 1
    /\ CallsTo(trace, {"libpostal_expand_address"})[1].arg.address
          # CallsTo(trace, {"libpostal_expand_address"})[2].arg.address

\* The NormalizeOptions the last expand call was made on.
ExpandedWith == Get(last.input.self)

\* C23: when address components were added to the options, the
\* address_components field passed to the native expansion call is a 16-bit
\* value whose bits 10, 11 and 12 are zero.
C23_ReservedBitsZero ==
    \A i \in 1..Len(trace) :
        (/\ trace[i].fn = "libpostal_expand_address"
         /\ last.op = "NormalizeOptions::expand"
         /\ ExpandedWith.address_components # NONE) =>
            /\ trace[i].arg.options.address_components \in 0..(2^16 - 1)
            /\ (trace[i].arg.options.address_components \div 2^10) % 8 = 0

\* C23 witness: TOPONYM and NEAR, the flags next to the reserved bits, were
\* added by two calls and the native expansion call got their bits.
C23_Witness ==
    /\ last.op = "NormalizeOptions::expand"
    /\ ExpandedWith.address_components = Some({"TOPONYM", "NEAR"})
    /\ \E i \in 1..Len(trace) :
          /\ trace[i].fn = "libpostal_expand_address"
          /\ trace[i].arg.options.address_components = 2^13 + 2^9

\* C24: when string options S were added, each of the eighteen boolean fields
\* of the options passed to the native expansion call is true exactly when
\* its flag is in S, whatever the native default of the field; the fields not
\* overridden by the address components or the languages are as the native
\* getter returned them.
C24_StringOptionsOverride ==
    \A i \in 1..Len(trace) :
        (/\ trace[i].fn = "libpostal_expand_address"
         /\ last.op = "NormalizeOptions::expand"
         /\ ExpandedWith.string_options # NONE) =>
            /\ \A f \in StringFlags :
                  (StringOptionField[f] \in trace[i].arg.options.toggles)
                      <=> (f \in Get(ExpandedWith.string_options))
            /\ trace[i].arg.options.toggles \subseteq {StringOptionField[f] : f \in StringFlags}
            /\ \E j \in 1..(i - 1) :
                  /\ trace[j].fn = "libpostal_get_default_options"
                  /\ ExpandedWith.address_components = NONE =>
                        trace[i].arg.options.address_components
                            = trace[j].ret.address_components
                  /\ ExpandedWith.languages = NONE =>
                        /\ trace[i].arg.options.languages = trace[j].ret.languages
                        /\ trace[i].arg.options.num_languages = trace[j].ret.num_languages

\* C24 witness: with the defaults of libpostal (latin_ascii true), and
\* TRANSLITERATE | LOWERCASE added, the native expansion call was made with
\* transliterate and lowercase true and every other boolean field false.
C24_Witness ==
    /\ last.op = "NormalizeOptions::expand"
    /\ defaults = LibpostalDefaults
    /\ "latin_ascii" \in NormalizeDefaults.toggles
    /\ ExpandedWith.string_options = Some({"TRANSLITERATE", "LOWERCASE"})
    /\ \E i \in 1..Len(trace) :
          /\ trace[i].fn = "libpostal_expand_address"
          /\ trace[i].arg.options.toggles = {"transliterate", "lowercase"}

\* The union of the flag values given to the calls of op made so far, or None
\* when no such call was made.
UnionAdded(op) ==
    IF \A k \in 1..Len(Added_so_far) : Added_so_far[k].fn # op THEN NONE
    ELSE Some(UNION {Added_so_far[k].arg :
                        k \in {n \in 1..Len(Added_so_far) : Added_so_far[n].fn = op}})

\* C25: while a NormalizeOptions is being built, string_options() and
\* address_components() return None when no add call of their kind was made
\* and otherwise the union of the flag values added, and languages() returns
\* the languages given to new, in order.
C25_GettersAreUnion ==
    Pending("NormalizeOptions::expand") =>
        /\ NormalizeOptions_string_options(Get(Get(req).self))
              = UnionAdded("add_string_option")
        /\ NormalizeOptions_address_components(Get(Get(req).self))
              = UnionAdded("add_address_component")
        /\ NormalizeOptions_languages(Get(Get(req).self)) = Get(req).languages

\* C25 witness: two different string option values were added to an object
\* built with two languages, and no address component.
C25_Witness ==
    /\ Pending("NormalizeOptions::expand")
    /\ Len(Added_so_far) = 2
    /\ Added_so_far[1] = [fn |-> "add_string_option", arg |-> {"LATIN_ASCII"}]
    /\ Added_so_far[2] = [fn |-> "add_string_option", arg |-> {"TRANSLITERATE", "LOWERCASE"}]
    /\ NormalizeOptions_string_options(Get(Get(req).self))
          = Some({"LATIN_ASCII", "TRANSLITERATE", "LOWERCASE"})
    /\ NormalizeOptions_address_components(Get(Get(req).self)) = NONE
    /\ NormalizeOptions_languages(Get(Get(req).self)) = Some(<<(<<101, 110>>), <<103, 114>>>>)

\* The allocator events of kind ev on the buffer p during the last operation.
EventsOn(ev, p) == {k \in 1..Len(mem) : mem[k].ev = ev /\ mem[k].ptr = p}

\* C26: when an expand operation has ended (its native options wrapper has
\* been dropped), every language C string that update_languages allocated
\* has been released exactly once with CString::from_raw, and not with free.
C26_LanguageStringsReleasedOnce ==
    last.op \in ExpandOps =>
        \A k \in 1..Len(mem) :
            mem[k].ev = "into_raw" =>
                /\ Cardinality(EventsOn("from_raw", mem[k].ptr)) = 1
                /\ EventsOn("libc_free", mem[k].ptr) = {}

\* The getter of the map-based ParsedAddress that corresponds to a field of
\* the struct-based one.
GetterOf(field) == IF field = "postal_code" THEN "postcode" ELSE field

\* C27: for a response whose labels are all labels of the native vocabulary
\* (the labels the match of parsed_address.rs names, "postcode" and "phone"
\* among them), each field of the struct-based ParsedAddress made from it
\* equals what the corresponding getter returns on the map-based
\* ParsedAddress made from the same response.
C27_ProjectionsAgree ==
    (/\ last.op = "parsed_address::ParsedAddress::from"
     /\ \A i \in 1..Len(Get(last.input.self).labels) :
           Get(last.input.self).labels[i] \in DOMAIN MatchField) =>
        \A field \in StructFields :
            last.val[field]
                = ParsedAddress_get(ParsedAddress_from(Get(last.input.self)), GetterOf(field))

====
